---- MODULE Spec2Model ----
(***************************************************************************)
(* Model of the box-size suggestion engine of the warehouse system         *)
(* (Database.suggest_box_size in database.py) together with the box       *)
(* catalog it reads (table box_sizes, create_box_size, delete_box_size).   *)
(*                                                                         *)
(* Numbers are integers.  A nullable column or a missing dictionary entry  *)
(* (SQL NULL, Python None) is the value NULL; every place where the code   *)
(* treats None differently from a number tests for it explicitly.          *)
(*                                                                         *)
(* The REAL columns and the numbers computed from them are binary floats.  *)
(* The floats of the model carry SignificandBits bits where Python's carry *)
(* 53: an integer below 2^SignificandBits is exact, a larger one rounds to *)
(* the nearest float, ties to even.  Lengths and volumes stay far below    *)
(* that limit in every specification, where + and * on integers are exact, *)
(* and are written with plain + and *; the weight total, which the         *)
(* requests of SpecWeigh carry beyond it, rounds after every operation.    *)
(***************************************************************************)
EXTENDS Integers, Sequences, FiniteSets

\* ------------------------------------------------------------------ bounds
MaxItemDim == 1    \* the sides of an item range over 1..MaxItemDim, 0 and NULL
MaxBoxDim == 2     \* the inner sides of a box range over 1..MaxBoxDim, 0 and NULL
MaxWeight == 1     \* an item's unit weight ranges over 1..MaxWeight and NULL
MaxQuantity == 2   \* an order line's quantity ranges over 1..MaxQuantity
MaxLines == 2      \* order lines per suggestion request
MaxBoxes == 2      \* rows of box_sizes
MaxGeoDim == 3     \* in SpecGeo the sides of items and boxes range over 1..MaxGeoDim
MaxWeighQuantity == 6   \* in SpecWeigh a line's quantity ranges over 1..MaxWeighQuantity
MaxCalls == 2      \* in SpecConc, suggestion requests in progress at a time
MaxItems == 2      \* in SpecOrders, rows of items
MaxOrders == 1     \* in SpecOrders, rows of orders
MaxListings == 1   \* in SpecOrders, rows of marketplace_listings
SignificandBits == 10   \* bits of a float's significand

\* SQL NULL / Python None
NULL == -1

IsNull(x) == x = NULL

\* ------------------------------------------------------- Python helpers
\* `x or 0`: None and 0 are falsy
OrZero(x) == IF IsNull(x) \/ x = 0 THEN 0 ELSE x

\* `x or 1`
OrOne(x) == IF IsNull(x) \/ x = 0 THEN 1 ELSE x

RECURSIVE Ulp(_, _)
\* the spacing of the floats around x >= 0, starting the search at spacing u
Ulp(x, u) == IF x < (2 ^ SignificandBits) * u THEN u ELSE Ulp(x, 2 * u)

\* the float nearest to the number x >= 0, ties to the even significand
Round(x) ==
    LET u == Ulp(x, 1)
        q == x \div u
        r == x % u
    IN  IF 2 * r < u THEN q * u
        ELSE IF 2 * r > u THEN (q + 1) * u
        ELSE IF q % 2 = 0 THEN q * u
        ELSE (q + 1) * u

Vol3(t) == t[1] * t[2] * t[3]

Min2(a, b) == IF a <= b THEN a ELSE b
Max2(a, b) == IF a >= b THEN a ELSE b

\* sorted(t) for a 3-element list of numbers
Sorted3(t) ==
    LET lo == Min2(t[1], Min2(t[2], t[3]))
        hi == Max2(t[1], Max2(t[2], t[3]))
    IN  <<lo, t[1] + t[2] + t[3] - lo - hi, hi>>

RECURSIVE SumAxisSkipFirst(_, _, _)
\* SumAxis with the first entry left out
SumAxisSkipFirst(dims_list, axis, n) ==
    IF n <= 1 THEN 0 ELSE SumAxisSkipFirst(dims_list, axis, n - 1) + dims_list[n][axis]

RECURSIVE SumAxis(_, _, _)
\* sum(d[axis] for d in dims_list[:n])
SumAxis(dims_list, axis, n) ==
    IF n = 0 THEN 0 ELSE SumAxis(dims_list, axis, n - 1) + dims_list[n][axis]

RECURSIVE MaxAxis(_, _, _)
\* max(d[axis] for d in dims_list[:n]), n >= 1
MaxAxis(dims_list, axis, n) ==
    IF n = 1 THEN dims_list[1][axis]
    ELSE Max2(MaxAxis(dims_list, axis, n - 1), dims_list[n][axis])

RECURSIVE SumStride2Every(_, _, _)
\* SumStride2 with the stride forgotten: dims_list[:] for dims_list[::2]
SumStride2Every(dims_list, axis, n) ==
    IF n = 0 THEN 0
    ELSE SumStride2Every(dims_list, axis, n - 1) + dims_list[n][axis]

RECURSIVE SumStride2(_, _, _)
\* sum(d[axis] for d in dims_list[::2]): positions 0, 2, 4, ... (1, 3, 5, ... here)
SumStride2(dims_list, axis, n) ==
    IF n = 0 THEN 0
    ELSE SumStride2(dims_list, axis, n - 1)
         + (IF n % 2 = 1 THEN dims_list[n][axis] ELSE 0)

\* ------------------------------------------------- step 1: expand items
\* UnitsOfLine with >= 0 for > 0
UnitsOfLineNonNegative(item) ==
    LET length == OrZero(item.length)
        width == OrZero(item.width)
        height == OrZero(item.height)
        quantity == OrOne(item.quantity)
    IN  IF length >= 0 /\ width >= 0 /\ height >= 0
        THEN [i \in 1..quantity |-> <<length, width, height>>]
        ELSE <<>>

\* UnitsOfLine with the test of width and height forgotten
UnitsOfLineLengthOnly(item) ==
    LET length == OrZero(item.length)
        width == OrZero(item.width)
        height == OrZero(item.height)
        quantity == OrOne(item.quantity)
    IN  IF length > 0
        THEN [i \in 1..quantity |-> <<length, width, height>>]
        ELSE <<>>

\* the [length, width, height] entries one order line appends to item_dims
UnitsOfLine(item) ==
    LET length == OrZero(item.length)
        width == OrZero(item.width)
        height == OrZero(item.height)
        quantity == OrOne(item.quantity)
    IN  IF length > 0 /\ width > 0 /\ height > 0
        THEN [i \in 1..quantity |-> <<length, width, height>>]
        ELSE <<>>

\* WeightOfLine with the weight added inside the test of the dimensions
WeightOfLineIfUsable(item) ==
    IF OrZero(item.length) > 0 /\ OrZero(item.width) > 0 /\ OrZero(item.height) > 0
    THEN Round(OrZero(item.weight) * OrOne(item.quantity))
    ELSE 0

\* weight * quantity, what one order line adds to total_weight
WeightOfLine(item) == Round(OrZero(item.weight) * OrOne(item.quantity))

RECURSIVE ExpandItems(_, _)
\* item_dims, total_volume and total_weight after the first n order lines
ExpandItems(its, n) ==
    IF n = 0 THEN [item_dims |-> <<>>, total_volume |-> 0, total_weight |-> 0]
    ELSE LET prev == ExpandItems(its, n - 1)
             units == UnitsOfLine(its[n])
         IN  [item_dims |-> prev.item_dims \o units,
              total_volume |-> prev.total_volume
                               + (IF units = <<>> THEN 0
                                  ELSE Len(units) * Vol3(units[1])),
              total_weight |-> Round(prev.total_weight + WeightOfLine(its[n]))]

\* ------------------------------------------ step 2: candidate arrangements
\* arrangements with the six permutations of the first unit added whatever
\* the number of units
arrangementsAlwaysPermuted(dims_list) ==
    LET n == Len(dims_list)
        d == dims_list[1]
    IN  <<  <<MaxAxis(dims_list, 1, n), MaxAxis(dims_list, 2, n), SumAxis(dims_list, 3, n)>>  >>
        \o (IF n >= 2
            THEN << <<SumAxis(dims_list, 1, n), MaxAxis(dims_list, 2, n), MaxAxis(dims_list, 3, n)>> >>
            ELSE <<>>)
        \o (IF n >= 2
            THEN << <<MaxAxis(dims_list, 1, n), SumAxis(dims_list, 2, n), MaxAxis(dims_list, 3, n)>> >>
            ELSE <<>>)
        \o (IF n >= 4
            THEN << <<SumAxis(dims_list, 1, 2), SumStride2(dims_list, 2, n), MaxAxis(dims_list, 3, n)>> >>
            ELSE <<>>)
        \o << <<d[1], d[2], d[3]>>, <<d[1], d[3], d[2]>>, <<d[2], d[1], d[3]>>,
               <<d[2], d[3], d[1]>>, <<d[3], d[1], d[2]>>, <<d[3], d[2], d[1]>> >>

arrangements(dims_list) ==
    LET n == Len(dims_list)
        d == dims_list[1]
    IN  <<  <<MaxAxis(dims_list, 1, n), MaxAxis(dims_list, 2, n), SumAxis(dims_list, 3, n)>>  >>
        \o (IF n >= 2
            THEN << <<SumAxis(dims_list, 1, n), MaxAxis(dims_list, 2, n), MaxAxis(dims_list, 3, n)>> >>
            ELSE <<>>)
        \o (IF n >= 2
            THEN << <<MaxAxis(dims_list, 1, n), SumAxis(dims_list, 2, n), MaxAxis(dims_list, 3, n)>> >>
            ELSE <<>>)
        \o (IF n >= 4
            THEN << <<SumAxis(dims_list, 1, 2), SumStride2(dims_list, 2, n), MaxAxis(dims_list, 3, n)>> >>
            ELSE <<>>)
        \o (IF n = 1
            THEN << <<d[1], d[2], d[3]>>, <<d[1], d[3], d[2]>>, <<d[2], d[1], d[3]>>,
                    <<d[2], d[3], d[1]>>, <<d[3], d[1], d[2]>>, <<d[3], d[2], d[1]>> >>
            ELSE <<>>)

RECURSIVE MaxByVolume(_, _, _)
\* MinByVolume with max for min
MaxByVolume(arrs, k, best) ==
    IF k > Len(arrs) THEN best
    ELSE MaxByVolume(arrs, k + 1, IF Vol3(arrs[k]) > Vol3(best) THEN arrs[k] ELSE best)

RECURSIVE MinByVolumeLast(_, _, _)
\* MinByVolume with <= for <: the last arrangement of the least volume
MinByVolumeLast(arrs, k, best) ==
    IF k > Len(arrs) THEN best
    ELSE MinByVolumeLast(arrs, k + 1, IF Vol3(arrs[k]) <= Vol3(best) THEN arrs[k] ELSE best)

RECURSIVE MinByVolume(_, _, _)
\* min(arrangements, key=lambda x: x[0] * x[1] * x[2]) from position k on, best
\* being the minimum so far: the first arrangement of the least volume
MinByVolume(arrs, k, best) ==
    IF k > Len(arrs) THEN best
    ELSE MinByVolume(arrs, k + 1, IF Vol3(arrs[k]) < Vol3(best) THEN arrs[k] ELSE best)

get_bounding_box(dims_list) ==
    IF dims_list = <<>> THEN <<0, 0, 0>>
    ELSE MinByVolume(arrangements(dims_list), 2, arrangements(dims_list)[1])

\* --------------------------------------- step 3: the catalog query (SQL)
\* inner_length * inner_width * inner_height in SQL: NULL if any factor is
SqlVolume(box) ==
    IF IsNull(box.inner_length) \/ IsNull(box.inner_width) \/ IsNull(box.inner_height)
    THEN NULL
    ELSE box.inner_length * box.inner_width * box.inner_height

\* ORDER BY ... ASC: NULL sorts before every number
SqlOrderLE(a, b) == IsNull(a) \/ (~IsNull(b) /\ a <= b)

\* WeightEligible with the WHERE clause left out
WeightEligibleAny(catalog, weight) == catalog

\* WHERE max_weight >= ?: a comparison with NULL is not true
WeightEligible(catalog, weight) ==
    {box \in catalog : ~IsNull(box.max_weight) /\ box.max_weight >= weight}

\* the row lists the query may return: the weight-eligible rows in ascending
\* order of volume, rows of equal volume in any order
SelectBoxes(catalog, weight) ==
    LET rows == WeightEligible(catalog, weight)
        n == Cardinality(rows)
    IN  {s \in [1..n -> rows] :
            /\ \A i, j \in 1..n : i # j => s[i] # s[j]
            /\ \A i, j \in 1..n : i < j => SqlOrderLE(SqlVolume(s[i]), SqlVolume(s[j]))}

\* ------------------------------------------- step 4: geometric fit test
rotations(box_dims) ==
    << <<box_dims[1], box_dims[2], box_dims[3]>>,
       <<box_dims[1], box_dims[3], box_dims[2]>>,
       <<box_dims[2], box_dims[1], box_dims[3]>>,
       <<box_dims[2], box_dims[3], box_dims[1]>>,
       <<box_dims[3], box_dims[1], box_dims[2]>>,
       <<box_dims[3], box_dims[2], box_dims[1]>> >>

BoxDims(box) == <<box.inner_length, box.inner_width, box.inner_height>>

\* sorted(rot) compares the elements: None against anything is a TypeError
SortRaises(rot) == \E i \in 1..3 : IsNull(rot[i])

\* RotationFits with the shortest side left out of the comparison
RotationFitsTwoLargest(rot, item_dims_to_fit) ==
    LET sorted_box == Sorted3(rot)
        sorted_items == Sorted3(item_dims_to_fit)
    IN  \A i \in 2..3 : sorted_box[i] >= sorted_items[i]

\* RotationFits with > for >=
RotationFitsStrictly(rot, item_dims_to_fit) ==
    LET sorted_box == Sorted3(rot)
        sorted_items == Sorted3(item_dims_to_fit)
    IN  \A i \in 1..3 : sorted_box[i] > sorted_items[i]

\* all(sorted_box[i] >= sorted_items[i] for i in range(3))
RotationFits(rot, item_dims_to_fit) ==
    LET sorted_box == Sorted3(rot)
        sorted_items == Sorted3(item_dims_to_fit)
    IN  \A i \in 1..3 : sorted_box[i] >= sorted_items[i]

\* FirstFit with the box taken as stored: neither sorted nor turned
FirstFitAsStored(rots, item_dims_to_fit, k) ==
    IF \A i \in 1..3 : rots[1][i] >= item_dims_to_fit[i] THEN 1 ELSE 0

RECURSIVE FirstFit(_, _, _)
\* the for-loop over rotations: the index of the first rotation that fits, 0 if none
FirstFit(rots, item_dims_to_fit, k) ==
    IF k > Len(rots) THEN 0
    ELSE IF RotationFits(rots[k], item_dims_to_fit) THEN k
    ELSE FirstFit(rots, item_dims_to_fit, k + 1)

RECURSIVE FitLoopNoBreak(_, _, _, _, _)
\* FitLoop without the break: an entry for every rotation that fits
FitLoopNoBreak(bxs, item_dims_to_fit, volume, k, valid) ==
    IF k > Len(bxs) THEN [raised |-> FALSE, valid_boxes |-> valid]
    ELSE LET rots == rotations(BoxDims(bxs[k]))
             Fits(rot) == RotationFits(rot, item_dims_to_fit)
             fitting == SelectSeq(rots, Fits)
         IN  IF SortRaises(rots[1]) THEN [raised |-> TRUE, valid_boxes |-> valid]
             ELSE FitLoopNoBreak(bxs, item_dims_to_fit, volume, k + 1,
                     valid \o [j \in 1..Len(fitting) |->
                                 [box |-> bxs[k],
                                  waste |-> Vol3(fitting[j]) - volume,
                                  volume |-> Vol3(fitting[j])]])

RECURSIVE FitLoop(_, _, _, _, _)
\* the for-loop over boxes from position k on, valid being valid_boxes so far
FitLoop(bxs, item_dims_to_fit, volume, k, valid) ==
    IF k > Len(bxs) THEN [raised |-> FALSE, valid_boxes |-> valid]
    ELSE LET rots == rotations(BoxDims(bxs[k]))
             f == FirstFit(rots, item_dims_to_fit, 1)
         IN  IF SortRaises(rots[1]) THEN [raised |-> TRUE, valid_boxes |-> valid]
             ELSE FitLoop(bxs, item_dims_to_fit, volume, k + 1,
                          IF f = 0 THEN valid
                          ELSE Append(valid, [box |-> bxs[k],
                                              waste |-> Vol3(rots[f]) - volume,
                                              volume |-> Vol3(rots[f])]))

\* ------------------------------------------------- step 5: select best
\* WasteLess with max for min
WasteMore(a, b) == a.waste > b.waste \/ (a.waste = b.waste /\ a.volume > b.volume)

\* (waste, volume) tuples compare lexicographically
WasteLess(a, b) == a.waste < b.waste \/ (a.waste = b.waste /\ a.volume < b.volume)

RECURSIVE MinByWaste(_, _, _)
\* min(valid_boxes, key=lambda x: (x['waste'], x['volume'])) from position k
\* on, best being the minimum so far: the first entry with the least key
MinByWaste(valid, k, best) ==
    IF k > Len(valid) THEN best
    ELSE MinByWaste(valid, k + 1, IF WasteLess(valid[k], best) THEN valid[k] ELSE best)

NoneResult == [kind |-> "None"]
BoxResult(box) == [kind |-> "box", box |-> box]
TypeErrorResult == [kind |-> "TypeError"]
NoCall == [kind |-> "idle"]

\* SelectBest with the fallback taking the last row, boxes[-1]
SelectBestFallbackLast(bxs, fit) ==
    IF fit.raised THEN TypeErrorResult
    ELSE IF fit.valid_boxes = <<>> THEN BoxResult(bxs[Len(bxs)])
    ELSE BoxResult(MinByWaste(fit.valid_boxes, 2, fit.valid_boxes[1]).box)

\* SelectBest without the fallback
SelectBestNoFallback(bxs, fit) ==
    IF fit.raised THEN TypeErrorResult
    ELSE IF fit.valid_boxes = <<>> THEN NoneResult
    ELSE BoxResult(MinByWaste(fit.valid_boxes, 2, fit.valid_boxes[1]).box)

SelectBest(bxs, fit) ==
    IF fit.raised THEN TypeErrorResult
    ELSE IF fit.valid_boxes = <<>> THEN BoxResult(bxs[1])
    ELSE BoxResult(MinByWaste(fit.valid_boxes, 2, fit.valid_boxes[1]).box)

\* EarlyNone with both early returns left out
EarlyNoneNever(its, dims) == FALSE

\* `if not items: return None` and `if not item_dims: return None`
EarlyNone(its, dims) == its = <<>> \/ dims = <<>>

\* Outcome without `if not boxes: return None`: boxes[0] of an empty list
OutcomeNoEmptyTest(bxs, fit) ==
    IF bxs = <<>> THEN [kind |-> "IndexError"] ELSE SelectBest(bxs, fit)

\* from `if not boxes: return None` to the end of the function
Outcome(bxs, fit) ==
    IF bxs = <<>> THEN NoneResult ELSE SelectBest(bxs, fit)

\* ------------------------------------------------------------- inputs
\* the dimension triples that lack a usable side: one side missing or zero,
\* or no side recorded at all
Spoiled ==
    {[i \in 1..3 |-> IF i = k THEN v ELSE 1] : k \in 1..3, v \in {NULL, 0}}
    \cup {[i \in 1..3 |-> NULL]}

OrderLine(s, w, q) ==
    [length |-> s[1], width |-> s[2], height |-> s[3], weight |-> w, quantity |-> q]

\* order lines as get_order_items returns them: items with positive sides, of
\* known or unknown weight, and weighing items with a side missing or zero
OrderLines ==
    {OrderLine(s, w, q) : s \in [1..3 -> 1..MaxItemDim],
                          w \in {NULL} \cup (1..MaxWeight), q \in 1..MaxQuantity}
    \cup {OrderLine(s, MaxWeight, q) : s \in Spoiled,
                                       q \in 1..MaxQuantity}

ItemLists == UNION {[1..n -> OrderLines] : n \in 0..MaxLines}

BoxNames == 1..MaxBoxes

\* the heaviest request
MaxTotalWeight == MaxWeight * MaxQuantity * MaxLines

BoxRow(name, s, w) ==
    [name |-> name, inner_length |-> s[1], inner_width |-> s[2],
     inner_height |-> s[3], max_weight |-> w]

\* (inner_length, inner_width, inner_height, max_weight) of the boxes created:
\* boxes with positive sides that carry one unit or every request, boxes with a
\* side missing or zero, and a box whose max_weight is missing
BoxInputs ==
    {<<s, w>> : s \in [1..3 -> 1..MaxBoxDim], w \in {MaxWeight, MaxTotalWeight}}
    \cup {<<s, MaxTotalWeight>> : s \in Spoiled}
    \cup {<<[i \in 1..3 |-> MaxBoxDim], NULL>>}

\* ------------------------------------------------------------- state
VARIABLES
    box_sizes,      \* the rows of table box_sizes
    items,          \* argument of the suggest_box_size call last made
    item_dims,      \* its locals, as they stand when it returns or raises
    total_volume,
    total_weight,
    min_dims,       \* (min_length, min_width, min_height)
    boxes,
    valid_boxes,
    result,         \* what the call returned, or that it raised, or no call yet
    calls,          \* SpecConc: the requests in progress, one record of locals each
    db_items,       \* the rows of table items, row k having id k
    orders,         \* the rows of table orders, row k having id k; ids are
                    \* not reused, a deleted row leaves DeletedRow in its place
    order_items,    \* the rows of table order_items, in the order of insertion
    marketplace_listings,   \* the rows of table marketplace_listings
    items_before_order      \* history: entry k is table items as create_order
                            \* found it when it made order k

vars == <<box_sizes, items, item_dims, total_volume, total_weight, min_dims,
          boxes, valid_boxes, result,
          calls, db_items, orders, order_items, marketplace_listings,
          items_before_order>>

inventory_vars == <<db_items, orders, order_items, marketplace_listings,
                    items_before_order>>

call_vars == <<items, item_dims, total_volume, total_weight, min_dims,
               boxes, valid_boxes, result>>

NoLocals ==
    /\ items = <<>>
    /\ item_dims = <<>>
    /\ total_volume = 0
    /\ total_weight = 0
    /\ min_dims = <<0, 0, 0>>
    /\ boxes = <<>>
    /\ valid_boxes = <<>>
    /\ result = NoCall

\* the locals of a request of SpecConc that has not begun
IdleCall ==
    [pc |-> "idle", items |-> <<>>, item_dims |-> <<>>, total_volume |-> 0,
     total_weight |-> 0, min_dims |-> <<0, 0, 0>>, boxes |-> <<>>,
     read_catalog |-> {}, valid_boxes |-> <<>>, result |-> NoCall]

Procs == 1..MaxCalls

NoCalls == calls = [p \in Procs |-> IdleCall]

\* the tables items, orders, order_items and marketplace_listings as init_db
\* creates them
NoInventory ==
    /\ db_items = <<>>
    /\ orders = <<>>
    /\ order_items = <<>>
    /\ marketplace_listings = <<>>
    /\ items_before_order = <<>>

Init ==
    /\ box_sizes = {}
    /\ NoLocals
    /\ NoCalls
    /\ NoInventory

\* ------------------------------------------------------------- actions
create_box_size(name, length, width, height, max_weight) ==
    /\ result = NoCall
    /\ Cardinality(box_sizes) < MaxBoxes
    /\ \A box \in box_sizes : box.name # name          \* name TEXT UNIQUE
    /\ box_sizes' = box_sizes \cup
          {BoxRow(name, <<length, width, height>>, max_weight)}
    /\ UNCHANGED <<call_vars, calls, inventory_vars>>

delete_box_size(box) ==
    /\ result = NoCall
    /\ box \in box_sizes
    /\ box_sizes' = box_sizes \ {box}
    /\ UNCHANGED <<call_vars, calls, inventory_vars>>

suggest_box_size(its) ==
    /\ result = NoCall
    /\ items' = its
    /\ LET e == ExpandItems(its, Len(its))
           target == get_bounding_box(e.item_dims)
       IN  /\ item_dims' = e.item_dims
           /\ total_volume' = e.total_volume
           /\ total_weight' = e.total_weight
           /\ IF EarlyNone(its, e.item_dims)
              THEN /\ min_dims' = <<0, 0, 0>>
                   /\ boxes' = <<>>
                   /\ valid_boxes' = <<>>
                   /\ result' = NoneResult
              ELSE /\ min_dims' = target
                   /\ boxes' \in SelectBoxes(box_sizes, e.total_weight)
                   /\ LET fit == FitLoop(boxes', target, e.total_volume, 1, <<>>)
                      IN  /\ valid_boxes' = fit.valid_boxes
                          /\ result' = Outcome(boxes', fit)
    /\ UNCHANGED <<box_sizes, calls, inventory_vars>>

\* the caller has the response; the call's locals are gone
Return ==
    /\ result # NoCall
    /\ items' = <<>>
    /\ item_dims' = <<>>
    /\ total_volume' = 0
    /\ total_weight' = 0
    /\ min_dims' = <<0, 0, 0>>
    /\ boxes' = <<>>
    /\ valid_boxes' = <<>>
    /\ result' = NoCall
    /\ UNCHANGED <<box_sizes, calls, inventory_vars>>

Next ==
    \/ \E name \in BoxNames, b \in BoxInputs :
          create_box_size(name, b[1][1], b[1][2], b[1][3], b[2])
    \/ \E box \in box_sizes : delete_box_size(box)
    \/ \E its \in ItemLists : suggest_box_size(its)
    \/ Return

Spec == Init /\ [][Next]_vars

\* ------------------------------------------- requests of many shapes
\* SpecGeo: the catalog holds one box, of any shape with sides in 1..MaxGeoDim,
\* that carries every request; the requests are of items of any such shape.
GeoShapes == [1..3 -> 1..MaxGeoDim]

GeoLines == {OrderLine(s, MaxWeight, q) : s \in GeoShapes, q \in 1..MaxQuantity}

GeoItemLists == UNION {[1..n -> GeoLines] : n \in 1..MaxLines}

\* requests of four lines of one flat unit each, so that the units at the
\* positions 0, 2 and at the positions 1, 3 of the expanded list differ
GeoRowLists ==
    [1..4 -> {OrderLine(s, MaxWeight, 1) :
                 s \in {t \in GeoShapes : t[3] = 1 /\ t[1] + t[2] <= 3}}]

InitGeo ==
    /\ box_sizes \in {{BoxRow(1, s, MaxTotalWeight)} : s \in GeoShapes}
    /\ NoLocals
    /\ NoCalls
    /\ NoInventory

NextGeo ==
    \/ \E its \in GeoItemLists \cup GeoRowLists : suggest_box_size(its)
    \/ Return

SpecGeo == InitGeo /\ [][NextGeo]_vars

\* ------------------------------------------- requests of heavy items
\* SpecWeigh: unit cubes of weight 1 or HeavyWeight, asked for as one order
\* line of a quantity or as that many lines of quantity 1, alone or next to
\* another line; the catalog holds one box, long enough for every request, of
\* a max_weight about a multiple of HeavyWeight.

\* a weight whose multiples are not all floats
HeavyWeight == 2 ^ (SignificandBits - 2) + 1

WeighLine(w, q) == OrderLine(<<1, 1, 1>>, w, q)

RECURSIVE Unroll(_, _)
\* the first n lines of its, each line of quantity q written as q consecutive
\* lines of quantity 1
Unroll(its, n) ==
    IF n = 0 THEN <<>>
    ELSE Unroll(its, n - 1)
         \o [i \in 1..its[n].quantity |-> [its[n] EXCEPT !.quantity = 1]]

WeighItemLists ==
    LET single == {<<WeighLine(w, q)>> : w \in {1, HeavyWeight},
                                         q \in 1..MaxWeighQuantity}
        either == single \cup {Unroll(its, 1) : its \in single}
    IN  either \cup {<<WeighLine(1, 1)>> \o its : its \in either}
               \cup {its \o <<WeighLine(1, 1)>> : its \in either}

WeighBoxes ==
    {BoxRow(1, <<1, 1, MaxWeighQuantity + 1>>, q * HeavyWeight - d) :
        q \in 1..(MaxWeighQuantity + 1), d \in {0, 2}}

InitWeigh ==
    /\ box_sizes \in {{b} : b \in WeighBoxes}
    /\ NoLocals
    /\ NoCalls
    /\ NoInventory

NextWeigh ==
    \/ \E its \in WeighItemLists : suggest_box_size(its)
    \/ Return

SpecWeigh == InitWeigh /\ [][NextWeigh]_vars

\* ------------------------------------------------ the call as a function
\* what a call of suggest_box_size(its) may return on the catalog: one result
\* for each order in which the query may list rows of equal volume
StandAlone(its, catalog) ==
    LET e == ExpandItems(its, Len(its))
        target == get_bounding_box(e.item_dims)
    IN  IF EarlyNone(its, e.item_dims) THEN {NoneResult}
        ELSE {Outcome(bxs, FitLoop(bxs, target, e.total_volume, 1, <<>>)) :
                 bxs \in SelectBoxes(catalog, e.total_weight)}

\* ------------------------------------------- requests side by side
\* SpecConc: up to MaxCalls requests run suggest_box_size side by side, each on
\* its own connection and its own locals, while boxes are created and deleted.
\* A request takes three steps: the code before the query, the query, whose
\* rows fetchall() copies into the local list boxes, and the code after it.
ConcItemLists ==
    {<<OrderLine(<<1, 1, 1>>, MaxWeight, 1)>>,
     <<OrderLine(<<1, 1, 1>>, MaxWeight, MaxQuantity)>>,
     <<OrderLine(<<NULL, NULL, NULL>>, MaxWeight, 1)>>}

ConcBoxInputs ==
    {<<<<1, 1, 1>>, MaxWeight>>,
     <<<<1, 1, MaxBoxDim>>, MaxTotalWeight>>,
     <<<<MaxBoxDim, MaxBoxDim, MaxBoxDim>>, MaxTotalWeight>>}

\* lines 463-544: expand the items and compute the target bounding box
Begin(p, its) ==
    /\ calls[p].pc = "idle"
    /\ LET e == ExpandItems(its, Len(its))
           begun == [IdleCall EXCEPT !.items = its,
                                     !.item_dims = e.item_dims,
                                     !.total_volume = e.total_volume,
                                     !.total_weight = e.total_weight]
       IN  calls' = [calls EXCEPT ![p] =
               IF EarlyNone(its, e.item_dims)
               THEN [begun EXCEPT !.pc = "done", !.result = NoneResult]
               ELSE [begun EXCEPT !.pc = "expanded",
                                  !.min_dims = get_bounding_box(e.item_dims)]]
    /\ UNCHANGED <<box_sizes, call_vars, inventory_vars>>

\* lines 547-557: the one SELECT of the call; read_catalog remembers the table
\* as the query saw it
ReadCatalog(p) ==
    /\ calls[p].pc = "expanded"
    /\ \E bxs \in SelectBoxes(box_sizes, calls[p].total_weight) :
          calls' = [calls EXCEPT ![p].pc = "read",
                                 ![p].boxes = bxs,
                                 ![p].read_catalog = box_sizes]
    /\ UNCHANGED <<box_sizes, call_vars, inventory_vars>>

\* RowsFetched with the rows read from the table as the loop goes, not copied
\* by fetchall(): a row deleted since the query is not seen
RowsStillStored(p) ==
    LET Stored(b) == b \in box_sizes
    IN  SelectSeq(calls[p].boxes, Stored)

\* boxes = [dict(row) for row in cursor.fetchall()]: a list local to the call
RowsFetched(p) == calls[p].boxes

\* lines 559-608: the fit test of the rows fetched and the choice among them
Finish(p) ==
    /\ calls[p].pc = "read"
    /\ LET bxs == RowsFetched(p)
           fit == FitLoop(bxs, calls[p].min_dims, calls[p].total_volume, 1, <<>>)
       IN  calls' = [calls EXCEPT ![p].pc = "done",
                                 ![p].valid_boxes = fit.valid_boxes,
                                 ![p].result = Outcome(bxs, fit)]
    /\ UNCHANGED <<box_sizes, call_vars, inventory_vars>>

\* the caller has the response; the call's locals are gone
Respond(p) ==
    /\ calls[p].pc = "done"
    /\ calls' = [calls EXCEPT ![p] = IdleCall]
    /\ UNCHANGED <<box_sizes, call_vars, inventory_vars>>

NextConc ==
    \/ \E p \in Procs, its \in ConcItemLists : Begin(p, its)
    \/ \E p \in Procs : ReadCatalog(p)
    \/ \E p \in Procs : Finish(p)
    \/ \E p \in Procs : Respond(p)
    \/ \E name \in BoxNames, b \in ConcBoxInputs :
          create_box_size(name, b[1][1], b[1][2], b[1][3], b[2])
    \/ \E box \in box_sizes : delete_box_size(box)

SpecConc == Init /\ [][NextConc]_vars

\* ------------------------------------------- items, orders, listings
\* SpecOrders: items are created and listed on a marketplace, an order is
\* created for them, and a box is suggested for the order; the catalog holds
\* one box that carries every order.
ItemInputs ==
    {[length |-> s[1], width |-> s[2], height |-> s[3],
      weight |-> MaxWeight, quantity |-> q] :
        s \in {<<1, 1, 1>>, <<NULL, NULL, NULL>>}, q \in 1..MaxQuantity}

ItemIds == 1..Len(db_items)

\* item_ids of create_order as the route passes them: (item_id, quantity) pairs
OrderInputs ==
    UNION {[1..n -> ItemIds \X (1..MaxQuantity)] : n \in 1..MaxLines}

create_item(item_data) ==
    /\ result = NoCall
    /\ Len(db_items) < MaxItems
    /\ db_items' = Append(db_items,
          [length |-> item_data.length, width |-> item_data.width,
           height |-> item_data.height, weight |-> item_data.weight,
           status |-> "in_stock",
           quantity |-> item_data.quantity,
           quantity_available |-> item_data.quantity])
    /\ UNCHANGED <<box_sizes, call_vars, calls, orders, order_items,
                   marketplace_listings, items_before_order>>

create_marketplace_listing(item_id, marketplace) ==
    /\ result = NoCall
    /\ Len(marketplace_listings) < MaxListings
    /\ marketplace_listings' = Append(marketplace_listings,
          [item_id |-> item_id, marketplace |-> marketplace, status |-> "active"])
    /\ UNCHANGED <<box_sizes, call_vars, calls, db_items, orders, order_items,
                   items_before_order>>

\* ItemAfterOrderLine that marks an item sold only once more units than it had
\* are taken
ItemAfterOrderLineOversoldOnly(item, qty) ==
    [item EXCEPT !.quantity_available = item.quantity_available - qty,
                 !.status = IF item.quantity_available - qty < 0
                            THEN "sold" ELSE "in_stock"]

\* UPDATE items SET quantity_available = quantity_available - qty, status = ...
ItemAfterOrderLine(item, qty) ==
    [item EXCEPT !.quantity_available = item.quantity_available - qty,
                 !.status = IF item.quantity_available - qty <= 0
                            THEN "sold" ELSE "in_stock"]

\* UPDATE marketplace_listings SET status = 'sold' WHERE item_id = ? AND
\* status = 'active' AND (the item's quantity_available) <= 0
ListingsAfterOrderLine(listings, item_id, item) ==
    [k \in 1..Len(listings) |->
        IF /\ listings[k].item_id = item_id
           /\ listings[k].status = "active"
           /\ item.quantity_available <= 0
        THEN [listings[k] EXCEPT !.status = "sold"]
        ELSE listings[k]]

RECURSIVE OrderLinesApplied(_, _, _, _)
\* items and marketplace_listings after the loop over the first n pairs of
\* normalized_items
OrderLinesApplied(its, listings, normalized_items, n) ==
    IF n = 0 THEN [db_items |-> its, marketplace_listings |-> listings]
    ELSE LET prev == OrderLinesApplied(its, listings, normalized_items, n - 1)
             item_id == normalized_items[n][1]
             qty == normalized_items[n][2]
             item == ItemAfterOrderLine(prev.db_items[item_id], qty)
         IN  [db_items |-> [prev.db_items EXCEPT ![item_id] = item],
              marketplace_listings |->
                  ListingsAfterOrderLine(prev.marketplace_listings, item_id, item)]

create_order(item_ids) ==
    /\ result = NoCall
    /\ Len(orders) < MaxOrders
    /\ orders' = Append(orders, [status |-> "pending"])
    /\ order_items' = order_items \o
          [k \in 1..Len(item_ids) |->
              [order_id |-> Len(orders) + 1, item_id |-> item_ids[k][1],
               quantity |-> item_ids[k][2]]]
    /\ LET after == OrderLinesApplied(db_items, marketplace_listings,
                                      item_ids, Len(item_ids))
       IN  /\ db_items' = after.db_items
           /\ marketplace_listings' = after.marketplace_listings
    /\ items_before_order' = Append(items_before_order, db_items)
    /\ UNCHANGED <<box_sizes, call_vars, calls>>

\* the rows of order_items of the order joined with their items, quantity
\* being the quantity ordered
get_order_items(order_id) ==
    LET OfOrder(row) == row.order_id = order_id
        rows == SelectSeq(order_items, OfOrder)
    IN  [k \in 1..Len(rows) |->
            LET i == db_items[rows[k].item_id]
            IN  OrderLine(<<i.length, i.width, i.height>>, i.weight, rows[k].quantity)]

\* what is left at an id of table orders once DELETE FROM orders removed the row
DeletedRow == [deleted |-> TRUE]

\* UPDATE items SET status = ? WHERE id = ?
update_item_status(its, item_id, status) ==
    [its EXCEPT ![item_id].status = status]

RECURSIVE StatusesReset(_, _, _)
\* table items after the loop of the delete route over the first n rows that
\* get_order_items returned
StatusesReset(its, rows, n) ==
    IF n = 0 THEN its
    ELSE update_item_status(StatusesReset(its, rows, n - 1),
                            rows[n].item_id, "in_stock")

\* the delete route: get_order_items, DELETE FROM orders, then the status of
\* each item of the order back to 'in_stock'; the rows of order_items stay
\* (foreign keys are not enforced), as do quantity_available and the listings
delete_order(order_id) ==
    LET OfOrder(row) == row.order_id = order_id
        rows == SelectSeq(order_items, OfOrder)
    IN  /\ result = NoCall
        /\ orders' = [orders EXCEPT ![order_id] = DeletedRow]
        /\ db_items' = StatusesReset(db_items, rows, Len(rows))
        /\ UNCHANGED <<box_sizes, call_vars, calls, order_items,
                       marketplace_listings, items_before_order>>

\* get_box_suggestion that marks the items of the order as packed when a box
\* is suggested for them
get_box_suggestion_marking(order_id) ==
    LET its == get_order_items(order_id)
        e == ExpandItems(its, Len(its))
        target == get_bounding_box(e.item_dims)
        InOrder(k) == \E j \in 1..Len(order_items) :
                         /\ order_items[j].order_id = order_id
                         /\ order_items[j].item_id = k
    IN  /\ result = NoCall
        /\ items' = its
        /\ item_dims' = e.item_dims
        /\ total_volume' = e.total_volume
        /\ total_weight' = e.total_weight
        /\ IF EarlyNone(its, e.item_dims)
           THEN /\ min_dims' = <<0, 0, 0>>
                /\ boxes' = <<>>
                /\ valid_boxes' = <<>>
                /\ result' = NoneResult
           ELSE /\ min_dims' = target
                /\ boxes' \in SelectBoxes(box_sizes, e.total_weight)
                /\ LET fit == FitLoop(boxes', target, e.total_volume, 1, <<>>)
                   IN  /\ valid_boxes' = fit.valid_boxes
                       /\ result' = Outcome(boxes', fit)
        /\ db_items' = [k \in 1..Len(db_items) |->
                           IF result'.kind = "box" /\ InOrder(k)
                           THEN [db_items[k] EXCEPT !.status = "packed"]
                           ELSE db_items[k]]
        /\ UNCHANGED <<box_sizes, calls, orders, order_items, marketplace_listings,
                       items_before_order>>

get_box_suggestion(order_id) ==
    suggest_box_size(get_order_items(order_id))

InitOrders ==
    /\ box_sizes = {BoxRow(1, <<MaxBoxDim, MaxBoxDim, MaxBoxDim>>, MaxTotalWeight)}
    /\ NoLocals
    /\ NoCalls
    /\ NoInventory

NextOrders ==
    \/ \E item_data \in ItemInputs : create_item(item_data)
    \/ \E item_id \in ItemIds : create_marketplace_listing(item_id, "ebay")
    \/ \E item_ids \in OrderInputs : create_order(item_ids)
    \/ \E order_id \in 1..Len(orders) : get_box_suggestion(order_id)
    \/ \E order_id \in 1..Len(orders) : delete_order(order_id)
    \/ Return

SpecOrders == InitOrders /\ [][NextOrders]_vars

\* =================================================================== claims
\* The vocabulary of the claims, stated on the request and the catalog and
\* not on the locals of the call.

Called == result # NoCall

\* the call came back with a value, None or a box, and did not raise
Returned == result.kind \in {"None", "box"}

\* an order line with usable dimensions: length, width and height all present
\* and strictly positive
UsableLine(line) ==
    /\ ~IsNull(line.length) /\ line.length > 0
    /\ ~IsNull(line.width) /\ line.width > 0
    /\ ~IsNull(line.height) /\ line.height > 0

HasUsableUnit == \E k \in 1..Len(items) : UsableLine(items[k])

RECURSIVE WeightSum(_, _, _)
\* the sum of weight * quantity over the first n lines, over all of them or
\* over those with usable dimensions only
WeightSum(its, usable_only, n) ==
    IF n = 0 THEN 0
    ELSE WeightSum(its, usable_only, n - 1)
         + (IF (usable_only => UsableLine(its[n])) /\ ~IsNull(its[n].weight)
            THEN its[n].weight * its[n].quantity ELSE 0)

\* total_weight of the claims: over ALL order lines
AllLinesWeight == WeightSum(items, FALSE, Len(items))

\* the weight of the lines with usable dimensions alone
UsableLinesWeight == WeightSum(items, TRUE, Len(items))

\* weight-eligible: max_weight is at least the weight of all items shipped
Eligible == {b \in box_sizes : ~IsNull(b.max_weight) /\ b.max_weight >= AllLinesWeight}

Sides(b) == <<b.inner_length, b.inner_width, b.inner_height>>

SidesRecorded(b) == \A i \in 1..3 : ~IsNull(Sides(b)[i])

Perms3 == {p \in [1..3 -> 1..3] : \A i, j \in 1..3 : i # j => p[i] # p[j]}

\* the box holds the target bounding box in one of its orientations
Holds(b, target) ==
    /\ SidesRecorded(b)
    /\ \E p \in Perms3 : \A i \in 1..3 : Sides(b)[p[i]] >= target[i]

InnerVolume(b) == b.inner_length * b.inner_width * b.inner_height

\* the (waste, volume) pair of x is lexicographically smaller than that of y
SmallerWastePair(x, y) ==
    LET wx == InnerVolume(x) - total_volume
        wy == InnerVolume(y) - total_volume
    IN  wx < wy \/ (wx = wy /\ InnerVolume(x) < InnerVolume(y))

\* t in ascending order
Ascending(t) ==
    CHOOSE s \in [1..3 -> {t[1], t[2], t[3]}] :
        /\ s[1] <= s[2] /\ s[2] <= s[3]
        /\ \E p \in Perms3 : \A i \in 1..3 : s[i] = t[p[i]]

SortedDominates(b, target) ==
    \A i \in 1..3 : Ascending(Sides(b))[i] >= Ascending(target)[i]

RecordedValid(b) == \E k \in 1..Len(valid_boxes) : valid_boxes[k].box = b

\* C1: whenever the call returns a box, the box is a row of the catalog whose
\* max_weight is at least the sum of weight * quantity over all order lines,
\* the lines without usable dimensions included, on the best-fit path and on
\* the fallback path alike.
C1_ReturnedBoxIsWeightEligible ==
    result.kind = "box" =>
        /\ result.box \in box_sizes
        /\ ~IsNull(result.box.max_weight)
        /\ result.box.max_weight >= AllLinesWeight

\* a box came back on the fallback path although the catalog has a box that
\* would carry the lines with usable dimensions, but not all lines
C1_Witness ==
    /\ result.kind = "box"
    /\ valid_boxes = <<>>
    /\ \E k \in 1..Len(items) : ~UsableLine(items[k]) /\ ~IsNull(items[k].weight)
    /\ \E b \in box_sizes :
          /\ ~IsNull(b.max_weight)
          /\ b.max_weight >= UsableLinesWeight
          /\ b.max_weight < AllLinesWeight

\* C2: when a weight-eligible box holds the target bounding box, the returned
\* box is one that holds it, and no weight-eligible box that holds it has a
\* lexicographically smaller (waste, volume) pair, waste being the inner volume
\* of the box less the total volume of the items.
C2_ReturnedBoxFitsWithLeastWaste ==
    (/\ result.kind = "box"
     /\ \E b \in Eligible : Holds(b, min_dims))
    => /\ Holds(result.box, min_dims)
       /\ \A b \in Eligible :
             Holds(b, min_dims) => ~SmallerWastePair(b, result.box)

\* the returned box was preferred to a smaller weight-eligible box that does
\* not hold the target
C2_Witness ==
    /\ result.kind = "box"
    /\ Holds(result.box, min_dims)
    /\ \E b \in Eligible :
          /\ SidesRecorded(b)
          /\ ~Holds(b, min_dims)
          /\ InnerVolume(b) < InnerVolume(result.box)

\* C3: when a unit has usable dimensions and the catalog has weight-eligible
\* boxes, none of which holds the target bounding box, a call that returns does
\* not return None: it returns a weight-eligible box of the smallest inner
\* volume.
C3_FallbackIsSmallestEligible ==
    (/\ Returned
     /\ HasUsableUnit
     /\ Eligible # {}
     /\ \A b \in Eligible : ~Holds(b, min_dims))
    => /\ result.kind = "box"
       /\ result.box \in Eligible
       /\ \A b \in Eligible : InnerVolume(result.box) <= InnerVolume(b)

\* the fallback chose between two weight-eligible boxes of different volume
C3_Witness ==
    /\ HasUsableUnit
    /\ result.kind = "box"
    /\ \A b \in Eligible : ~Holds(b, min_dims)
    /\ \E b \in Eligible : InnerVolume(result.box) < InnerVolume(b)

\* C4: if every box of the catalog has max_weight strictly below total_weight,
\* the call returns None, whatever the items.
C4_NoBoxBeyondItsWeightLimit ==
    (/\ Called
     /\ \A b \in box_sizes : ~IsNull(b.max_weight) /\ b.max_weight < AllLinesWeight)
    => result = NoneResult

\* a request with a usable unit met a catalog of boxes that are all too weak
C4_Witness ==
    /\ Called
    /\ HasUsableUnit
    /\ box_sizes # {}
    /\ \A b \in box_sizes : ~IsNull(b.max_weight) /\ b.max_weight < AllLinesWeight

\* C5 as stated: whenever the item list and the catalog are both non-empty,
\* the call does not return None.
C5_NoneOnlyForEmptyInput ==
    (Called /\ items # <<>> /\ box_sizes # {}) => result # NoneResult

\* C5 as amended: the call returns None exactly when the item list is empty, no
\* order line has usable dimensions, or no box of the catalog is weight-eligible.
C5_NoneExactlyWhenNothingToSuggest ==
    Called =>
        (result = NoneResult <=> (items = <<>> \/ ~HasUsableUnit \/ Eligible = {}))

\* None came back for a non-empty item list with a usable unit and a non-empty
\* catalog
C5_Witness ==
    /\ result = NoneResult
    /\ HasUsableUnit
    /\ box_sizes # {}

\* C6 as stated: the call never raises, whatever dimensions are missing or
\* non-positive.
C6_NeverRaises == result # TypeErrorResult

\* C7: for an empty item list the call returns None, whatever the catalog.
C7_EmptyItemListGivesNone ==
    (Called /\ items = <<>>) => result = NoneResult

\* an empty item list met a catalog with a box that carries anything asked
C7_Witness ==
    /\ Called
    /\ items = <<>>
    /\ \E b \in box_sizes : SidesRecorded(b) /\ ~IsNull(b.max_weight)

\* C8: for a non-empty item list and an empty catalog the call returns None.
C8_EmptyCatalogGivesNone ==
    (Called /\ items # <<>> /\ box_sizes = {}) => result = NoneResult

\* a request with a usable unit met the empty catalog
C8_Witness ==
    /\ Called
    /\ HasUsableUnit
    /\ box_sizes = {}

\* C9: if no order line has length, width and height all strictly positive,
\* the call returns None even when the catalog has weight-eligible boxes.
C9_NoUsableDimensionsGivesNone ==
    (Called /\ ~HasUsableUnit) => result = NoneResult

\* lines without usable dimensions met a catalog with a weight-eligible box
C9_Witness ==
    /\ Called
    /\ items # <<>>
    /\ ~HasUsableUnit
    /\ \E b \in Eligible : SidesRecorded(b)

\* C10: in a call that tests the weight-eligible boxes and returns, a
\* weight-eligible box is recorded as valid if and only if its sides in
\* ascending order are each at least the corresponding side of the target
\* bounding box in ascending order.
C10_ValidIffSortedSidesDominate ==
    (Returned /\ boxes # <<>>)
    => \A b \in Eligible : RecordedValid(b) <=> SortedDominates(b, min_dims)

\* a box is recorded as valid whose sides as stored do not dominate the target
\* side by side, and another weight-eligible box is not recorded
C10_Witness ==
    /\ \E b \in Eligible :
          /\ RecordedValid(b)
          /\ \E i \in 1..3 : Sides(b)[i] < min_dims[i]
    /\ \E b \in Eligible : SidesRecorded(b) /\ ~RecordedValid(b)

\* the waste recorded for a box recorded as valid
RecordedWaste(b) ==
    valid_boxes[CHOOSE k \in 1..Len(valid_boxes) : valid_boxes[k].box = b].waste

\* the row b with its three sides permuted by p
Turned(b, p) == BoxRow(b.name, [i \in 1..3 |-> Sides(b)[p[i]]], b.max_weight)

C12_TargetHasLeastVolume ==
    (Called /\ item_dims # <<>>)
    => LET arrs == arrangements(item_dims)
       IN  /\ \E k \in 1..Len(arrs) : arrs[k] = min_dims
           /\ \A k \in 1..Len(arrs) : Vol3(min_dims) <= Vol3(arrs[k])

\* the arrangements differ in volume, and the vertical stack, generated first,
\* is not the one chosen
C12_Witness ==
    /\ Called
    /\ item_dims # <<>>
    /\ LET arrs == arrangements(item_dims)
       IN  /\ min_dims # arrs[1]
           /\ Vol3(min_dims) < Vol3(arrs[1])
           /\ \E j, k \in 1..Len(arrs) : Vol3(arrs[j]) # Vol3(arrs[k])

\* the sides of b are the sides of the unit in some order
PermutationOf(b, unit) ==
    \E p \in Perms3 : \A i \in 1..3 : Sides(b)[i] = unit[p[i]]

C20_AtMostSixArrangements ==
    (Called /\ item_dims # <<>>)
    => /\ Len(arrangements(item_dims)) <= 6
       /\ \A k \in 1..Len(boxes) : Len(rotations(BoxDims(boxes[k]))) <= 6

\* C20 as amended: 7 candidate arrangements are generated for one unit (the
\* vertical stack and the six permutations), 3 for two or three units and 4
\* for four or more, so at most 7; 6 orientations are tested for a box at most.
C20_AtMostSevenArrangements ==
    (Called /\ item_dims # <<>>)
    => /\ Len(arrangements(item_dims)) =
             (IF Len(item_dims) = 1 THEN 7 ELSE IF Len(item_dims) < 4 THEN 3 ELSE 4)
       /\ \A k \in 1..Len(boxes) :
             /\ Len(rotations(BoxDims(boxes[k]))) = 6
             /\ FirstFit(rotations(BoxDims(boxes[k])), min_dims, 1) \in 0..6

\* one unit was asked for, and the box was tested in all six orientations
\* without a fit
C20_Witness ==
    /\ Called
    /\ Len(item_dims) = 1
    /\ boxes # <<>>
    /\ FirstFit(rotations(BoxDims(boxes[1])), min_dims, 1) = 0

\* the item list without its line k
WithoutLine(its, k) == SubSeq(its, 1, k - 1) \o SubSeq(its, k + 1, Len(its))

\* weight * quantity of a line, nothing for a line of unknown weight
LineWeight(line) == IF IsNull(line.weight) THEN 0 ELSE line.weight * line.quantity

\* C15: an order line lacking usable dimensions adds weight * quantity to
\* total_weight and nothing else: the expanded geometry list, total_volume
\* and the target bounding box are what they would be without the line.
C15_UnusableLineAddsWeightOnly ==
    Called =>
        \A k \in 1..Len(items) :
            ~UsableLine(items[k]) =>
                LET rest == WithoutLine(items, k)
                    e == ExpandItems(rest, Len(rest))
                IN  /\ item_dims = e.item_dims
                    /\ total_volume = e.total_volume
                    /\ total_weight = e.total_weight + LineWeight(items[k])
                    /\ item_dims # <<>> => min_dims = get_bounding_box(e.item_dims)

\* a weighing line without usable dimensions was asked for together with a
\* usable unit, and a box came back
C15_Witness ==
    /\ result.kind = "box"
    /\ HasUsableUnit
    /\ \E k \in 1..Len(items) : ~UsableLine(items[k]) /\ LineWeight(items[k]) > 0

\* one of the inner sides of b is recorded and not strictly positive
HasNonPositiveSide(b) == \E i \in 1..3 : ~IsNull(Sides(b)[i]) /\ Sides(b)[i] <= 0

\* C19: for an item list that has a unit with usable dimensions, a catalog box
\* with a non-positive inner side is never recorded as a valid box.
C19_NonPositiveBoxNeverValid ==
    HasUsableUnit =>
        \A b \in box_sizes : HasNonPositiveSide(b) => ~RecordedValid(b)

\* a weight-eligible box with a side of 0 was tested and not recorded, and the
\* box tested after it was
C19_Witness ==
    /\ HasUsableUnit
    /\ Len(boxes) = 2
    /\ HasNonPositiveSide(boxes[1])
    /\ ~RecordedValid(boxes[1])
    /\ RecordedValid(boxes[2])

\* C14 as stated: the call returns what a call would return on the same catalog
\* for the item list in which every order line of quantity q is written as q
\* consecutive lines of quantity 1.
C14_QuantityExpansion ==
    Called => result \in StandAlone(Unroll(items, Len(items)), box_sizes)

\* C18: under any interleaving of requests with each other and with
\* create_box_size and delete_box_size, a request that is done has returned
\* what a stand-alone call for its items returns on the catalog as it stood at
\* the request's one catalog read (a request that returned before the read,
\* what a stand-alone call returns on any catalog).
C18_EachRequestAsIfAlone ==
    \A p \in Procs :
        calls[p].pc = "done" =>
            IF EarlyNone(calls[p].items, calls[p].item_dims)
            THEN calls[p].result \in StandAlone(calls[p].items, box_sizes)
            ELSE calls[p].result \in StandAlone(calls[p].items, calls[p].read_catalog)

\* a request returned a box that has been deleted since its catalog read, a
\* result no stand-alone call gives on the catalog as it is now, while another
\* request that read a different catalog is in progress
C18_Witness ==
    \E p, q \in Procs :
        /\ p # q
        /\ calls[p].pc = "done"
        /\ calls[p].result.kind = "box"
        /\ calls[p].result.box \notin box_sizes
        /\ calls[p].result \notin StandAlone(calls[p].items, box_sizes)
        /\ calls[q].pc = "read"
        /\ calls[q].read_catalog # calls[p].read_catalog

\* C17: a suggestion call is read-only: the step that makes the call leaves
\* the box catalog and every row of items, orders, order_items and
\* marketplace_listings as they were, whatever it returns.
C17_SuggestionIsReadOnly ==
    [][(result = NoCall /\ result' # NoCall)
          => /\ box_sizes' = box_sizes
             /\ db_items' = db_items
             /\ orders' = orders
             /\ order_items' = order_items
             /\ marketplace_listings' = marketplace_listings]_vars

\* a box was suggested, as the fallback, for an order that sold an item out
\* and turned its listing to sold
C17_Witness ==
    /\ result.kind = "box"
    /\ valid_boxes = <<>>
    /\ order_items # <<>>
    /\ \E k \in 1..Len(db_items) : db_items[k].status = "sold"
    /\ \E k \in 1..Len(marketplace_listings) : marketplace_listings[k].status = "sold"

\* The arrangements in the words of the claims, computed from the expanded
\* list without the helpers of the model.
RECURSIVE SumOf(_, _)
SumOf(dims, axis) ==
    IF dims = <<>> THEN 0 ELSE Head(dims)[axis] + SumOf(Tail(dims), axis)

LargestOf(dims, axis) ==
    CHOOSE m \in {dims[k][axis] : k \in 1..Len(dims)} :
        \A k \in 1..Len(dims) : dims[k][axis] <= m

VerticalStack(dims) == <<LargestOf(dims, 1), LargestOf(dims, 2), SumOf(dims, 3)>>

SideBySideLengthwise(dims) == <<SumOf(dims, 1), LargestOf(dims, 2), LargestOf(dims, 3)>>

SideBySideWidthwise(dims) == <<LargestOf(dims, 1), SumOf(dims, 2), LargestOf(dims, 3)>>

\* the units at the positions 0, 2, 4, ... of the list
EveryOther(dims) == [j \in 1..((Len(dims) + 1) \div 2) |-> dims[2 * j - 1]]

Grid(dims) ==
    <<dims[1][1] + dims[2][1], SumOf(EveryOther(dims), 2), LargestOf(dims, 3)>>

\* the six permutations of a unit
PermutationsOf(unit) == {[i \in 1..3 |-> unit[p[i]]] : p \in Perms3}

\* C21: for an expanded list of 2 or 3 units the candidate arrangements are
\* exactly the vertical stack, the side-by-side length-wise and the
\* side-by-side width-wise arrangement, in this order; for a single unit the
\* candidates are the stack and the permutations of the unit and no
\* side-by-side arrangement is added.
C21_ThreeArrangementsForTwoOrThreeUnits ==
    LET arrs == arrangements(item_dims)
    IN  /\ (Called /\ Len(item_dims) \in {2, 3})
            => arrs = <<VerticalStack(item_dims), SideBySideLengthwise(item_dims),
                        SideBySideWidthwise(item_dims)>>
        /\ (Called /\ Len(item_dims) = 1)
            => /\ Len(arrs) = 7
               /\ arrs[1] = VerticalStack(item_dims)
               /\ {arrs[k] : k \in 2..7} = PermutationsOf(item_dims[1])

\* three units were asked for whose three arrangements differ in volume, and
\* the side-by-side width-wise arrangement is the target
C21_Witness ==
    /\ Called
    /\ Len(item_dims) = 3
    /\ min_dims = SideBySideWidthwise(item_dims)
    /\ Vol3(VerticalStack(item_dims)) # Vol3(SideBySideLengthwise(item_dims))
    /\ Vol3(min_dims) < Vol3(VerticalStack(item_dims))
    /\ Vol3(min_dims) < Vol3(SideBySideLengthwise(item_dims))

\* C22: for 4 or more expanded units, and only then, a fourth candidate is
\* generated: the grid, of length the sum of the lengths of the first two
\* units, of width the sum of the widths of the units at the positions 0, 2,
\* 4, ... and of height the greatest height.
C22_GridForFourOrMoreUnits ==
    (Called /\ item_dims # <<>>)
    => LET arrs == arrangements(item_dims)
       IN  IF Len(item_dims) >= 4
           THEN Len(arrs) = 4 /\ arrs[4] = Grid(item_dims)
           ELSE Len(arrs) # 4
                /\ \A k \in 1..Len(arrs) :
                      \/ arrs[k] \in {VerticalStack(item_dims),
                                      SideBySideLengthwise(item_dims),
                                      SideBySideWidthwise(item_dims)}
                      \/ Len(item_dims) = 1 /\ arrs[k] \in PermutationsOf(item_dims[1])

\* four units were asked for, the widths at the positions 0, 2 sum to another
\* number than those at the positions 1, 3, and the grid is the target
C22_Witness ==
    /\ Called
    /\ Len(item_dims) = 4
    /\ min_dims = Grid(item_dims)
    /\ Vol3(min_dims) < Vol3(VerticalStack(item_dims))
    /\ item_dims[1][2] + item_dims[3][2] # item_dims[2][2] + item_dims[4][2]

\* the candidates in the order of generation, in the words of the claims
CandidatesInOrder(dims) ==
    IF Len(dims) = 1 THEN <<VerticalStack(dims)>>
    ELSE <<VerticalStack(dims), SideBySideLengthwise(dims), SideBySideWidthwise(dims)>>
         \o (IF Len(dims) >= 4 THEN <<Grid(dims)>> ELSE <<>>)

InOrder3(t) ==
    LET of == {t[1], t[2], t[3]}
        least == CHOOSE x \in of : \A y \in of : x <= y
        greatest == CHOOSE x \in of : \A y \in of : x >= y
    IN  <<least, t[1] + t[2] + t[3] - least - greatest, greatest>>

\* the orientation rot of a box holds the target: sorted, it dominates the
\* sorted target
OrientationFits(rot, target) ==
    \A i \in 1..3 : InOrder3(rot)[i] >= InOrder3(target)[i]

\* the orientations of b that hold the target
FittingOrientations(b, target) ==
    {rot \in PermutationsOf(Sides(b)) : OrientationFits(rot, target)}

\* the volume a best-fit orientation policy records for b: the least volume
\* of an orientation that holds the target
BestFitVolume(b, target) ==
    CHOOSE v \in {Vol3(rot) : rot \in FittingOrientations(b, target)} :
        \A rot \in FittingOrientations(b, target) : v <= Vol3(rot)

RECURSIVE BestFitRecords(_, _, _)
\* what a best-fit orientation policy records for the rows bxs
BestFitRecords(bxs, target, volume) ==
    IF bxs = <<>> THEN <<>>
    ELSE (IF FittingOrientations(Head(bxs), target) = {} THEN <<>>
          ELSE <<[box |-> Head(bxs),
                  waste |-> BestFitVolume(Head(bxs), target) - volume,
                  volume |-> BestFitVolume(Head(bxs), target)]>>)
         \o BestFitRecords(Tail(bxs), target, volume)

C25_WasteNeverNegative ==
    /\ (Called /\ item_dims # <<>>) => Vol3(min_dims) >= total_volume
    /\ \A k \in 1..Len(valid_boxes) : valid_boxes[k].waste >= 0

\* C26 as stated: if a box is recorded as valid, every expanded unit taken
\* alone passes the sorted fit test against that box.
C26_ValidBoxHoldsEveryUnit ==
    \A k \in 1..Len(valid_boxes), u \in 1..Len(item_dims) :
        OrientationFits(Sides(valid_boxes[k].box), item_dims[u])

\* the item lists that are its with the order lines in another order
Reordered(its) ==
    LET n == Len(its)
    IN  {[k \in 1..n |-> its[p[k]]] :
            p \in {q \in [1..n -> 1..n] : \A i, j \in 1..n : i # j => q[i] # q[j]}}

\* C27 as stated: for the order lines in any other order the target bounding
\* box has the same volume and the call returns the same box.
C27_LineOrderIsImmaterial ==
    Called =>
        \A other \in Reordered(items) :
            LET e == ExpandItems(other, Len(other))
            IN  /\ item_dims # <<>>
                    => Vol3(get_bounding_box(e.item_dims)) = Vol3(min_dims)
                /\ result \in StandAlone(other, box_sizes)

\* the ids of the items on the lines of an order
ItemsOfOrder(rows, order_id) ==
    {rows[k].item_id : k \in {j \in 1..Len(rows) : rows[j].order_id = order_id}}

\* the listings of an item, by position in the table
ListingsOf(listings, item_id) ==
    {k \in 1..Len(listings) : listings[k].item_id = item_id}

\* C23: a create_order step leaves every ordered item whose
\* quantity_available is 0 or below with status 'sold' and no listing in
\* status 'active', and every ordered item with units remaining with status
\* 'in_stock' and its listings as they were.
C23_OrderedItemsSoldOrInStock ==
    [][Len(orders') > Len(orders) =>
          \A i \in ItemsOfOrder(order_items', Len(orders')) :
              IF db_items'[i].quantity_available <= 0
              THEN /\ db_items'[i].status = "sold"
                   /\ \A k \in ListingsOf(marketplace_listings', i) :
                          marketplace_listings'[k].status # "active"
              ELSE /\ db_items'[i].status = "in_stock"
                   /\ Len(marketplace_listings') = Len(marketplace_listings)
                   /\ \A k \in ListingsOf(marketplace_listings', i) :
                          marketplace_listings'[k] = marketplace_listings[k]]_vars

\* an order took the last unit of an item that had a listing, which is sold
\* now, and left units of another of its items, which is in stock
C23_Witness ==
    /\ orders # <<>>
    /\ \E i, j \in ItemsOfOrder(order_items, Len(orders)) :
          /\ db_items[i].quantity_available = 0
          /\ db_items[i].status = "sold"
          /\ ListingsOf(marketplace_listings, i) # {}
          /\ \A k \in ListingsOf(marketplace_listings, i) :
                 marketplace_listings[k].status = "sold"
          /\ db_items[j].quantity_available > 0
          /\ db_items[j].status = "in_stock"

\* C29 as stated: every item has 0 <= quantity_available <= quantity.
C29_AvailableWithinStock ==
    \A i \in ItemIds :
        /\ 0 <= db_items[i].quantity_available
        /\ db_items[i].quantity_available <= db_items[i].quantity

\* C30 as stated: once the order made last is deleted, every item of it has
\* the status and the quantity_available it had before the order was created.
C30_DeleteUndoesOrder ==
    \A k \in 1..Len(orders) :
        (k = Len(orders) /\ orders[k] = DeletedRow) =>
            \A i \in ItemsOfOrder(order_items, k) :
                /\ db_items[i].status = items_before_order[k][i].status
                /\ db_items[i].quantity_available =
                       items_before_order[k][i].quantity_available

====
